---- MODULE Spec2Model ----
(***************************************************************************)
(* Model of backend/app/apis/firebase/__init__.py: the POST /test-database *)
(* handler test_database, the two pydantic records it uses, and the        *)
(* external key-value store (db.storage.json) it reads.                    *)
(*                                                                         *)
(* The handler is modelled statement by statement (pc is its position) so  *)
(* that the store, which is owned by a collaborator, may change between    *)
(* any two of its statements.                                              *)
(***************************************************************************)
EXTENDS Integers, Sequences, FiniteSets, TLC

(* ---------------------------------------------------------------------- *)
(* Bounds                                                                  *)
(* ---------------------------------------------------------------------- *)

\* number of requests the endpoint accepts in one behaviour
MaxRequests == 3

(* ---------------------------------------------------------------------- *)
(* Values                                                                  *)
(* ---------------------------------------------------------------------- *)

\* Python's None
None == [py |-> "None"]

\* the literal {} passed as default= on line 30
EmptyMapping == [k \in {} |-> 0]

\* the hardcoded key of line 30
Key == "firebase_test_timestamp"

\* the hardcoded URL of line 31
DatabaseUrl == "https://meetudatabutton-default-rtdb.europe-west1.firebasedatabase.app"

\* request.path values (TestDatabaseRequest.path : str, no format constraint)
Paths == {"/users/test", "firebase_test_timestamp"}

\* keys the store may hold: the hardcoded one and one that is also a path
Keys == {Key, "/users/test"}

\* JSON documents the store's owner keeps under each key
Documents(k) ==
    IF k = Key THEN {EmptyMapping, [seconds |-> 1]} ELSE {[name |-> "test"]}

\* the store is reachable
NoFault == [type |-> "", text |-> ""]

\* exceptions a store read can raise: one transient, one permanent
Failures == { [type |-> "ConnectionError", text |-> "connection refused"],
              [type |-> "PermissionError", text |-> "permission denied"] }

\* classes derived from Exception (line 34 names the class it catches)
ExceptionSubclasses == {"ConnectionError", "PermissionError"}

VARIABLES
    store,          \* contents of the key-value store: key -> JSON document
    fault,          \* NoFault, or the exception every read raises at present
    pc,             \* position of the handler
    request,        \* the TestDatabaseRequest being handled
    ts,             \* value of the db.storage.json.get(...) expression
    e,              \* the exception bound by "except Exception as e"
    response,       \* the TestDatabaseResponse returned
    stdout,         \* lines printed since the request was accepted
    reads,          \* store reads attempted since the request was accepted
    keysRead,       \* every key the handler has passed to the store
    storeAtRead,    \* contents and fault of the store when it was read
    last,           \* the previous completed request: path, store state, response
    nreq            \* requests accepted so far

vars == << store, fault, pc, request, ts, e, response, stdout, reads,
           keysRead, storeAtRead, last, nreq >>

handlerVars == << pc, request, ts, e, response, stdout, reads, keysRead,
                  storeAtRead, last, nreq >>

(* ---------------------------------------------------------------------- *)
(* Records and pure helpers                                                *)
(* ---------------------------------------------------------------------- *)

\* class TestDatabaseRequest(BaseModel): path: str
TestDatabaseRequest(path) == [path |-> path]

\* class TestDatabaseResponse(BaseModel): success, message, data = None
TestDatabaseResponse(success, message, data) ==
    [success |-> success, message |-> message, data |-> data]

\* str(e)
Str(exc) == exc.text

\* line 23: the f-string printed before the read
RequestLogLine(path) == "Testing database connection at path: " \o path

\* an error line that leaves the description out
ErrorLogLine_NoDescription(exc) == "Error testing database connection"

\* line 36: the f-string printed in the except branch
ErrorLogLine(exc) == "Error testing database connection: " \o Str(exc)

\* a handler that reads the path it was asked about
ReadKey_RequestPath(path) == path

\* line 30: the key handed to the store
ReadKey(path) == Key

\* a read without default=
DefaultArg_None == None

\* line 30: the default= argument
DefaultArg == EmptyMapping

\* a handler that catches one exception class only
Catches_ConnectionErrorOnly(exc) == exc.type = "ConnectionError"

\* line 34: except Exception
Catches(exc) == exc.type \in ExceptionSubclasses

\* a handler that tries the read a second time before giving up
AfterRaise_RetryOnce(exc) ==
    IF reads = 0 THEN "read" ELSE IF Catches(exc) THEN "except" ELSE "raised"

\* lines 21, 34: where control goes when the read raises exc: into the
\* except branch, or out of the handler when nothing catches exc
AfterRaise(exc) == IF Catches(exc) THEN "except" ELSE "raised"

\* a try branch that reports the default instead of the value read
SuccessResponse_DefaultTimestamp(path, value) ==
    TestDatabaseResponse(
        TRUE,
        "Firebase Realtime Database test successful. Path '" \o path \o "' is accessible.",
        [testTimestamp |-> EmptyMapping, databaseUrl |-> DatabaseUrl])

\* a try branch that numbers its responses
SuccessResponse_Numbered(path, value) ==
    TestDatabaseResponse(
        TRUE,
        "Firebase Realtime Database test successful. Path '" \o path \o "' is accessible.",
        [testTimestamp |-> value, databaseUrl |-> DatabaseUrl, requestNumber |-> nreq])

\* lines 26-33: the response of the try branch
SuccessResponse(path, value) ==
    TestDatabaseResponse(
        TRUE,
        "Firebase Realtime Database test successful. Path '" \o path \o "' is accessible.",
        [testTimestamp |-> value, databaseUrl |-> DatabaseUrl])

\* an except branch that still reports the URL
FailureResponse_WithUrl(exc) ==
    TestDatabaseResponse(
        FALSE,
        "Firebase Realtime Database test failed: " \o Str(exc),
        [databaseUrl |-> DatabaseUrl])

\* an except branch that reports success
FailureResponse_Success(exc) ==
    TestDatabaseResponse(
        TRUE,
        "Firebase Realtime Database test failed: " \o Str(exc),
        None)

\* lines 39-43: the response of the except branch
FailureResponse(exc) ==
    TestDatabaseResponse(
        FALSE,
        "Firebase Realtime Database test failed: " \o Str(exc),
        None)

\* db.storage.json.get(key, default=...): the stored document, the default
\* when the key is absent, an exception when the store cannot be read
StorageJsonGet(key, default) ==
    IF fault # NoFault
    THEN [raised |-> TRUE, exc |-> fault, value |-> None]
    ELSE [raised |-> FALSE, exc |-> NoFault,
          value |-> IF key \in DOMAIN store THEN store[key] ELSE default]

(* ---------------------------------------------------------------------- *)
(* Initial state                                                           *)
(* ---------------------------------------------------------------------- *)

Init ==
    /\ store = EmptyMapping
    /\ fault = NoFault
    /\ pc = "idle"
    /\ request = None
    /\ ts = None
    /\ e = NoFault
    /\ response = None
    /\ stdout = << >>
    /\ reads = 0
    /\ keysRead = {}
    /\ storeAtRead = None
    /\ last = None
    /\ nreq = 0

(* ---------------------------------------------------------------------- *)
(* The handler                                                             *)
(* ---------------------------------------------------------------------- *)

\* line 17: the framework calls test_database(request)
Receive(path) ==
    /\ pc = "idle"
    /\ nreq < MaxRequests
    /\ nreq' = nreq + 1
    /\ request' = TestDatabaseRequest(path)
    /\ pc' = "log"
    /\ ts' = None
    /\ e' = NoFault
    /\ response' = None
    /\ stdout' = << >>
    /\ reads' = 0
    /\ storeAtRead' = None
    /\ last' = IF pc = "idle" /\ response # None
               THEN [path |-> request.path, at |-> storeAtRead, response |-> response]
               ELSE last
    /\ UNCHANGED << store, fault, keysRead >>

\* line 23: print(f"Testing database connection at path: {request.path}")
LogRequest ==
    /\ pc = "log"
    /\ stdout' = Append(stdout, RequestLogLine(request.path))
    /\ pc' = "read"
    /\ UNCHANGED << store, fault, request, ts, e, response, reads, keysRead,
                    storeAtRead, last, nreq >>

\* line 30: db.storage.json.get("firebase_test_timestamp", default={})
ReadStore ==
    /\ pc = "read"
    /\ LET k == ReadKey(request.path)
           r == StorageJsonGet(k, DefaultArg)
       IN  /\ reads' = reads + 1
           /\ keysRead' = keysRead \cup {k}
           /\ storeAtRead' = [store |-> store, fault |-> fault]
           /\ IF r.raised
              THEN /\ e' = r.exc
                   /\ ts' = ts
                   /\ pc' = AfterRaise(r.exc)
              ELSE /\ ts' = r.value
                   /\ e' = e
                   /\ pc' = "return"
    /\ UNCHANGED << store, fault, request, response, stdout, last, nreq >>

\* lines 26-33: return TestDatabaseResponse(success=True, ...)
ReturnSuccess ==
    /\ pc = "return"
    /\ response' = SuccessResponse(request.path, ts)
    /\ pc' = "done"
    /\ UNCHANGED << store, fault, request, ts, e, stdout, reads, keysRead,
                    storeAtRead, last, nreq >>

\* line 36: print(f"Error testing database connection: {str(e)}")
LogError ==
    /\ pc = "except"
    /\ stdout' = Append(stdout, ErrorLogLine(e))
    /\ pc' = "return_error"
    /\ UNCHANGED << store, fault, request, ts, e, response, reads, keysRead,
                    storeAtRead, last, nreq >>

\* lines 39-43: return TestDatabaseResponse(success=False, ...)
ReturnError ==
    /\ pc = "return_error"
    /\ response' = FailureResponse(e)
    /\ pc' = "done"
    /\ UNCHANGED << store, fault, request, ts, e, stdout, reads, keysRead,
                    storeAtRead, last, nreq >>

\* the framework sends the returned response; the handler is free again
Respond ==
    /\ pc = "done"
    /\ pc' = "idle"
    /\ UNCHANGED << store, fault, request, ts, e, response, stdout, reads,
                    keysRead, storeAtRead, last, nreq >>

(* ---------------------------------------------------------------------- *)
(* The store's owner                                                       *)
(* ---------------------------------------------------------------------- *)

\* a collaborator writes a document under a key
StorePut(k, v) ==
    /\ fault = NoFault
    /\ IF k \in DOMAIN store THEN store[k] # v ELSE TRUE
    /\ store' = [x \in DOMAIN store \cup {k} |-> IF x = k THEN v ELSE store[x]]
    /\ UNCHANGED << fault, handlerVars >>

\* a collaborator deletes a key
StoreDelete(k) ==
    /\ fault = NoFault
    /\ k \in DOMAIN store
    /\ store' = [x \in DOMAIN store \ {k} |-> store[x]]
    /\ UNCHANGED << fault, handlerVars >>

\* the store becomes unreadable: every read raises f
StoreFail(f) ==
    /\ fault = NoFault
    /\ fault' = f
    /\ UNCHANGED << store, handlerVars >>

\* the store becomes readable again
StoreRecover ==
    /\ fault # NoFault
    /\ fault' = NoFault
    /\ UNCHANGED << store, handlerVars >>

(* ---------------------------------------------------------------------- *)
(* Specifications                                                          *)
(* ---------------------------------------------------------------------- *)

HandlerStep ==
    \/ LogRequest
    \/ ReadStore
    \/ ReturnSuccess
    \/ LogError
    \/ ReturnError
    \/ Respond

Next ==
    \/ \E path \in Paths : Receive(path)
    \/ LogRequest
    \/ ReadStore
    \/ ReturnSuccess
    \/ LogError
    \/ ReturnError
    \/ Respond
    \/ \E k \in Keys : \E v \in Documents(k) : StorePut(k, v)
    \/ \E k \in Keys : StoreDelete(k)
    \/ \E f \in Failures : StoreFail(f)
    \/ StoreRecover

Spec == Init /\ [][Next]_vars

\* a request that was accepted runs to its return: the handler is one
\* synchronous call, nothing in it waits for anything
FairSpec == Spec /\ WF_vars(HandlerStep)

(* ---------------------------------------------------------------------- *)
(* Properties                                                              *)
(* ---------------------------------------------------------------------- *)

\* the handler has returned a response for the request in hand
Returned == response # None

\* the read of the request in hand was attempted and raised
ReadRaised == reads > 0 /\ storeAtRead.fault # NoFault

\* the read of the request in hand was attempted and did not raise
ReadOk == reads > 0 /\ storeAtRead.fault = NoFault

\* the previous request ran against the store state of the request in hand
SameStoreAsLast == Returned /\ last # None /\ last.at = storeAtRead

\* C1: every request, whatever the store read does (value, key absent, any
\* failure raised), ends with the handler returning a TestDatabaseResponse
\* whose success field is a boolean; no failure leaves the handler as an
\* error.
C1_AlwaysReturnsResponse ==
    /\ [](pc # "raised")
    /\ [](Returned => /\ DOMAIN response = {"success", "message", "data"}
                      /\ response.success \in BOOLEAN)
    /\ (pc = "log") ~> (pc = "done" /\ Returned)

C1_Witness ==
    /\ pc = "done"
    /\ ReadRaised
    /\ storeAtRead.fault.type = "PermissionError"
    /\ response.success = FALSE

\* C2: when the read of "firebase_test_timestamp" does not raise, the
\* response is success = true, the "accessible" message with the request's
\* path, the fixed databaseUrl, and testTimestamp = the value the store held
\* for that key, or {} when the key was absent.
C2_SuccessResponse ==
    /\ ReadOk => pc \in {"return", "done", "idle"}
    /\ (Returned /\ ReadOk) =>
         response =
           [ success |-> TRUE,
             message |-> "Firebase Realtime Database test successful. Path '"
                           \o request.path \o "' is accessible.",
             data |-> [ testTimestamp |->
                          IF "firebase_test_timestamp" \in DOMAIN storeAtRead.store
                          THEN storeAtRead.store["firebase_test_timestamp"]
                          ELSE << >>,
                        databaseUrl |->
                          "https://meetudatabutton-default-rtdb.europe-west1.firebasedatabase.app" ] ]

C2_Witness ==
    /\ Returned
    /\ ReadOk
    /\ "firebase_test_timestamp" \in DOMAIN storeAtRead.store
    /\ response.data.testTimestamp = [seconds |-> 1]

\* C3: when the read raises a failure with description d, the response is
\* success = false, message = "Firebase Realtime Database test failed: " d,
\* data = null; nothing of the success payload is in it.
C3_FailureResponse ==
    /\ ReadRaised => pc \in {"except", "return_error", "done", "idle"}
    /\ (Returned /\ ReadRaised) =>
         response =
           [ success |-> FALSE,
             message |-> "Firebase Realtime Database test failed: "
                           \o storeAtRead.fault.text,
             data |-> None ]

C3_Witness ==
    /\ Returned
    /\ ReadRaised
    /\ response.message = "Firebase Realtime Database test failed: connection refused"

\* C4: no step of the handler changes the store (its contents or whether it
\* can be read), in successful and failed requests alike, and the only key
\* the handler ever reads is "firebase_test_timestamp".
C4_StoreOnlyRead ==
    [][ /\ (pc' # pc) => (store' = store /\ fault' = fault)
        /\ keysRead' \subseteq {"firebase_test_timestamp"} ]_vars

C4_Witness ==
    /\ Returned
    /\ nreq >= 2
    /\ last # None
    /\ last.response.success # response.success
    /\ keysRead = {"firebase_test_timestamp"}
    /\ "/users/test" \in DOMAIN store

\* C5: two calls with the same path against the same store state (contents
\* and reachability) return identical responses.
C5_Idempotent ==
    (SameStoreAsLast /\ last.path = request.path) => response = last.response

C5_Witness ==
    /\ SameStoreAsLast
    /\ last.path = request.path
    /\ response.success
    /\ response.data.testTimestamp = [seconds |-> 1]

\* C6: the path reaches the message only: two requests that differ in path
\* and run against the same store state read the same key and return the
\* same success and the same data; the path is never a key of a store
\* access.
C6_PathOnlyInMessage ==
    /\ keysRead \subseteq {"firebase_test_timestamp"}
    /\ (SameStoreAsLast /\ last.path # request.path) =>
         /\ response.success = last.response.success
         /\ response.data = last.response.data

C6_Witness ==
    /\ SameStoreAsLast
    /\ last.path # request.path
    /\ request.path \in DOMAIN storeAtRead.store
    /\ response.success
    /\ response.message # last.response.message

\* C7 as stated: a request emits exactly one log line, the "Testing" line
\* when it returns success = true and the "Error" line when it returns
\* success = false.
C7_OneLinePerBranch ==
    Returned =>
      stdout = IF response.success
               THEN << "Testing database connection at path: " \o request.path >>
               ELSE << "Error testing database connection: " \o storeAtRead.fault.text >>

\* C7 amended: every request emits the "Testing" line first; a request that
\* returns success = true emits nothing else, a request that returns
\* success = false emits the "Error" line after it; printing and returning
\* are all the handler does, the store is left as it was.
C7_LogLines ==
    [][ /\ (response' # None) =>
             stdout' =
               IF response'.success
               THEN << "Testing database connection at path: " \o request'.path >>
               ELSE << "Testing database connection at path: " \o request'.path,
                       "Error testing database connection: " \o storeAtRead'.fault.text >>
        /\ (pc' # pc) => (store' = store /\ fault' = fault) ]_vars

C7_Witness ==
    /\ Returned
    /\ ~response.success
    /\ Len(stdout) = 2

C9_NoRetry ==
    [][ /\ reads' <= 1
        /\ (pc \in {"except", "return_error"}) =>
              (reads' = reads /\ keysRead' = keysRead /\ storeAtRead' = storeAtRead)
        /\ (response' # None /\ reads' > 0 /\ storeAtRead'.fault # NoFault) =>
              [response' EXCEPT !.message = ""] =
                 [success |-> FALSE, message |-> "", data |-> None] ]_vars

C9_Witness ==
    /\ Returned
    /\ reads = 1
    /\ last # None
    /\ ~response.success
    /\ ~last.response.success
    /\ last.at.fault.type = "ConnectionError"
    /\ storeAtRead.fault.type = "PermissionError"

\* C10: in every response data is null exactly when success is false, a
\* non-null data has exactly the keys testTimestamp and databaseUrl, and
\* success is true exactly when the store read did not raise.
C10_ResponseShape ==
    Returned =>
      /\ (response.data = None) <=> (response.success = FALSE)
      /\ (response.data # None) =>
            DOMAIN response.data = {"testTimestamp", "databaseUrl"}
      /\ response.success <=> ReadOk

C10_Witness ==
    /\ Returned
    /\ response.success
    /\ ReadOk
    /\ DOMAIN response.data = {"testTimestamp", "databaseUrl"}

====
